---- MODULE Spec2Model ----
(***************************************************************************)
(* aurl-rust: the OAuth2 token cache (src/src/oauth2.rs), the              *)
(* authenticated dispatcher and its redirect policy (src/src/request.rs).  *)
(*                                                                         *)
(* Spec        : invocations of Dispatcher::send sharing one profile's     *)
(*               cache file on disk.                                       *)
(* SpecPolicy  : same_origin_redirect_policy as a decision function over   *)
(*               (previous, url) drawn from bounded sets.                  *)
(* SpecRedirect: the transport following a redirect chain under the        *)
(*               policy.                                                   *)
(* SpecHeader  : split_custom_header over bounded templates and tokens.    *)
(* SpecCachePath: AccessToken::cache_file over bounded profile names.      *)
(* SpecStore   : save, load and remove of two profiles' cache records.     *)
(* SpecGrant   : GrantType::get_access_token step by step.                 *)
(* SpecHeaders : the outbound header set built by Dispatcher::send.        *)
(***************************************************************************)
EXTENDS Integers, Sequences, FiniteSets, TLC

VARIABLES
    file,       \* the profile's cache file on disk
    pc,         \* each invocation's position in Dispatcher::send
    token,      \* each invocation's in-memory AccessToken (`let mut token`)
    tokSrc,     \* where that token came from: "none" | "cache" | "grant"
    iter,       \* the loop iteration the invocation is in (0 before the loop)
    posts,      \* token POSTs the invocation has made
    writes,     \* cache records the invocation has written in full
    sends,      \* final requests the invocation has sent
    bearer,     \* the access token carried by the last final request
    saveRes,    \* result of save_cache in this iteration: "none" | "ok" | "err"
    savedAt,    \* epoch seconds calc_ttl read in this iteration's save
    res,        \* last Result seen in this iteration: "none" | "ok" |
                \* "unauthorized" | "error" | "oauth_error"
    tmpl,       \* the profile's default_auth_header_template ("" when unset)
    previous,   \* redirect attempt: the URLs visited so far
    url,        \* redirect attempt: the next target
    decision,   \* the policy's last decision: "none" | "follow" | "stop"
    hop,        \* transport position: "off" | "await" | "redirected" | "final"
    arg,        \* the input of the function or step machine under check
    out,        \* its result (empty until it has returned)
    disk,       \* token cache directory: the record stored at each path
    step,       \* position inside GrantType::get_access_token
    events,     \* the I/O get_access_token has done so far, in order
    auth_code,  \* the `auth_code` buffer of the AuthorizationCode grant
    stdin       \* the lines standard input still holds

dispVars == <<file, pc, token, tokSrc, iter, posts, writes, sends, bearer,
              saveRes, savedAt, res, tmpl>>
redirVars == <<previous, url, decision, hop>>
stepVars == <<disk, step, events, auth_code, stdin>>
funVars == <<arg, out, disk, step, events, auth_code, stdin>>
vars == <<file, pc, token, tokSrc, iter, posts, writes, sends, bearer,
          saveRes, savedAt, res, tmpl, previous, url, decision, hop, arg, out,
          disk, step, events, auth_code, stdin>>

----------------------------------------------------------------------------
(* Bounds of the model *)

\* u64 arithmetic is modelled modulo this scaled-down word size
U64Modulus == 16
\* the epoch seconds SystemTime::now() may return are 0..MaxEpoch
MaxEpoch == 1
\* the resource server answers "unauthorized" only while iter < MaxIter
MaxIter == 3
\* longest chain of previous URLs handed to the policy in SpecPolicy
MaxChainLen == 6

\* the two concurrent invocations of the program against one profile
Procs == {"inv1", "inv2"}

----------------------------------------------------------------------------
(* AccessToken (oauth2.rs 73-82).  Option<T> is a sequence of length <= 1. *)

None == <<>>
Some(x) == <<x>>

AccessToken(at, tt, rt, ei, sc, idt, ttl) ==
    [access_token |-> at, token_type |-> tt, refresh_token |-> rt,
     expires_in |-> ei, scope |-> sc, id_token |-> idt, ttl |-> ttl]

NoToken == AccessToken("", "", None, 0, None, None, None)

\* Token records the token endpoint may answer with (res.json(), line 317):
\* the record of test_deserialize_json with a short lifetime, and one with
\* the other optional fields present whose expires_in is the largest u64.
IssuedTokens ==
    { AccessToken("aaaaaa", "bearer", None, 3, Some("root"), None, None),
      AccessToken("bbbbbb", "mac", Some("rrrrrr"), U64Modulus - 1, None,
                  Some("iiiiii"), None) }

----------------------------------------------------------------------------
(* serde_json round trip of AccessToken (derive(Serialize, Deserialize)).  *)
(* A document is the sequence of its members <<key, value>>, a value being *)
(* <<"str", s>>, <<"num", n>> or <<"null">>.                               *)

JStr(s) == <<"str", s>>
JNum(n) == <<"num", n>>
JNull == <<"null">>
JOpt(o, kind) == IF o = None THEN JNull ELSE <<kind, o[1]>>

\* serde_json::to_string(&self): every field in declaration order
to_string(t) ==
    << <<"access_token", JStr(t.access_token)>>,
       <<"token_type", JStr(t.token_type)>>,
       <<"refresh_token", JOpt(t.refresh_token, "str")>>,
       <<"expires_in", JNum(t.expires_in)>>,
       <<"scope", JOpt(t.scope, "str")>>,
       <<"id_token", JOpt(t.id_token, "str")>>,
       <<"ttl", JOpt(t.ttl, "num")>> >>

Members(doc, key) == {i \in 1..Len(doc) : doc[i][1] = key}
Member(doc, key) == doc[CHOOSE i \in Members(doc, key) : TRUE][2]

\* a required field: present once, of the right kind
HasRequired(doc, key, kind) ==
    /\ Cardinality(Members(doc, key)) = 1
    /\ Member(doc, key)[1] = kind
\* an Option field: absent, null, or present once with the right kind
HasOptional(doc, key, kind) ==
    \/ Members(doc, key) = {}
    \/ /\ Cardinality(Members(doc, key)) = 1
       /\ Member(doc, key)[1] \in {kind, "null"}
GetOptional(doc, key) ==
    IF Members(doc, key) = {} \/ Member(doc, key)[1] = "null"
    THEN None ELSE Some(Member(doc, key)[2])

WellFormed(doc) ==
    /\ HasRequired(doc, "access_token", "str")
    /\ HasRequired(doc, "token_type", "str")
    /\ HasOptional(doc, "refresh_token", "str")
    /\ HasRequired(doc, "expires_in", "num")
    /\ HasOptional(doc, "scope", "str")
    /\ HasOptional(doc, "id_token", "str")
    /\ HasOptional(doc, "ttl", "num")

\* serde_json::from_reader: the token of a well-formed document
from_reader(doc) ==
    AccessToken(Member(doc, "access_token")[2], Member(doc, "token_type")[2],
                GetOptional(doc, "refresh_token"), Member(doc, "expires_in")[2],
                GetOptional(doc, "scope"), GetOptional(doc, "id_token"),
                GetOptional(doc, "ttl"))

----------------------------------------------------------------------------
(* The cache file at the profile's path.  `closed` tells a complete JSON   *)
(* text from a truncated or empty one; `by` is the invocation that created *)
(* the file now at the path ("earlier": a run before these invocations), so *)
(* that a write through a handle to a file removed meanwhile is told from  *)
(* a write to the file at the path.                                        *)

Absent == [exists |-> FALSE, closed |-> FALSE, doc |-> <<>>, by |-> ""]
Created(p) == [exists |-> TRUE, closed |-> FALSE, doc |-> <<>>, by |-> p]
Written(d, p) == [exists |-> TRUE, closed |-> TRUE, doc |-> d, by |-> p]
Truncated(d, k, p) ==
    [exists |-> TRUE, closed |-> FALSE, doc |-> SubSeq(d, 1, k), by |-> p]

\* how much of the text a failed write_all may have put on disk
PartialWrites(d) == {0, Len(d) \div 2}

Parses(f) == f.closed /\ WellFormed(f.doc)

----------------------------------------------------------------------------
(* TokenCacheStore: load_cache, save_cache, remove_cache                   *)

\* load_cache (oauth2.rs 86-98): File::open fails -> None; otherwise
\* serde_json::from_reader(..).unwrap(): Some(token), or a panic when the
\* text is not a well-formed token record.
load_cache(f) ==
    IF ~f.exists THEN [kind |-> "none", tok |-> NoToken]
    ELSE IF Parses(f) THEN [kind |-> "some", tok |-> from_reader(f.doc)]
    ELSE [kind |-> "panic", tok |-> NoToken]

open_truncating(f, p) == [ok |-> TRUE, file |-> Created(p)]

\* OpenOptions::new().write(true).create_new(true).open(path)
\* (oauth2.rs 105-108): fails when the file exists, else creates it empty.
open_create_new(f, p) ==
    IF f.exists THEN [ok |-> FALSE, file |-> f]
    ELSE [ok |-> TRUE, file |-> Created(p)]

\* cache_file.write_all(..) through the handle p opened: it reaches the file
\* at the path unless that file was removed (and maybe created anew by
\* another invocation) since p opened it
write_all(f, p, content) == IF f.exists /\ f.by = p THEN content ELSE f

\* calc_ttl (oauth2.rs 128-135): now.as_secs() + expires_in in u64; the value
\* a build without overflow checks returns.
calc_ttl(now, expires_in) == (now + expires_in) % U64Modulus

\* the u64 addition of calc_ttl overflows (a panic in a build with overflow
\* checks)
calc_ttl_overflows(now, expires_in) == now + expires_in >= U64Modulus

----------------------------------------------------------------------------
(* Text.  A str is the sequence of its characters; the operators below are *)
(* the std::str methods the code calls.                                    *)

Uppers == <<"A", "B", "C", "D", "E", "F", "G", "H", "I", "J", "K", "L", "M",
            "N", "O", "P", "Q", "R", "S", "T", "U", "V", "W", "X", "Y", "Z">>
Lowers == <<"a", "b", "c", "d", "e", "f", "g", "h", "i", "j", "k", "l", "m",
            "n", "o", "p", "q", "r", "s", "t", "u", "v", "w", "x", "y", "z">>

Lower(c) ==
    IF \E i \in 1..Len(Uppers) : Uppers[i] = c
    THEN Lowers[CHOOSE i \in 1..Len(Uppers) : Uppers[i] = c]
    ELSE c

\* str::to_lowercase
to_lowercase(s) == [i \in 1..Len(s) |-> Lower(s[i])]

IsSpace(c) == c \in {" ", "\t", "\n", "\r"}

RECURSIVE trim_start(_)
trim_start(s) ==
    IF s # <<>> /\ IsSpace(Head(s)) THEN trim_start(Tail(s)) ELSE s

RECURSIVE trim_end(_)
trim_end(s) ==
    IF s # <<>> /\ IsSpace(s[Len(s)]) THEN trim_end(SubSeq(s, 1, Len(s) - 1)) ELSE s

\* str::trim
trim(s) == trim_end(trim_start(s))

\* str::starts_with
starts_with(s, pat) == Len(s) >= Len(pat) /\ SubSeq(s, 1, Len(pat)) = pat

\* str::contains
RECURSIVE contains(_, _)
contains(s, pat) ==
    IF Len(s) < Len(pat) THEN FALSE
    ELSE starts_with(s, pat) \/ contains(Tail(s), pat)

\* str::replace: every non-overlapping match, left to right; what was put in
\* is not searched again
RECURSIVE replace(_, _, _)
replace(s, pat, with) ==
    IF s = <<>> THEN <<>>
    ELSE IF starts_with(s, pat)
         THEN with \o replace(SubSeq(s, Len(pat) + 1, Len(s)), pat, with)
         ELSE <<Head(s)>> \o replace(Tail(s), pat, with)

\* str::split(sep).collect::<Vec<_>>(): one more part than separators
RECURSIVE split(_, _)
split(s, sep) ==
    IF \A i \in 1..Len(s) : s[i] # sep THEN <<s>>
    ELSE LET i == CHOOSE j \in 1..Len(s) :
                      s[j] = sep /\ \A k \in 1..(j - 1) : s[k] # sep
         IN <<SubSeq(s, 1, i - 1)>> \o split(SubSeq(s, i + 1, Len(s)), sep)

----------------------------------------------------------------------------
(* split_custom_header (request.rs 135-156)                                *)

Placeholder == <<"$", "t", "o", "k", "e", "n">>

HeaderResult(ok, header, value, err) ==
    [ok |-> ok, header |-> header, value |-> value, err |-> err]

split_custom_header_lowering_token(template, access_token) ==
    LET parts == split(template, "=") IN
    IF Len(parts) # 2
    THEN HeaderResult(FALSE, <<>>, <<>>, "invalid custom_header_template")
    ELSE IF ~contains(to_lowercase(parts[2]), Placeholder)
    THEN HeaderResult(FALSE, <<>>, <<>>, "can't find '$token' placeholder")
    ELSE HeaderResult(TRUE, parts[1],
                      to_lowercase(replace(to_lowercase(trim(parts[2])),
                                           Placeholder, access_token)), "")

split_custom_header(template, access_token) ==
    LET parts == split(template, "=") IN
    IF Len(parts) # 2
    THEN HeaderResult(FALSE, <<>>, <<>>, "invalid custom_header_template")
    ELSE IF ~contains(to_lowercase(parts[2]), Placeholder)
    THEN HeaderResult(FALSE, <<>>, <<>>, "can't find '$token' placeholder")
    ELSE HeaderResult(TRUE, parts[1],
                      replace(to_lowercase(trim(parts[2])), Placeholder,
                              access_token), "")

\* templates a profile may configure: none, the spec's example, one without
\* '=' and one without the placeholder
TemplateExample ==
    <<"X", "-", "A", "u", "t", "h", "=", "B", "e", "a", "r", "e", "r", " ",
      "$", "T", "O", "K", "E", "N">>
ConfigTemplates ==
    { <<>>,
      TemplateExample,
      <<"X", "-", "A", "u", "t", "h">>,
      <<"X", "-", "A", "u", "t", "h", "=", "B", "e", "a", "r", "e", "r", " ",
        "x", "y", "z">> }

----------------------------------------------------------------------------
(* Dispatcher::send (request.rs 47-132), one invocation p.                 *)

Terminal == {"done_ok", "done_err", "panic_load", "panic_save_open", "panic_ttl",
             "panic_template"}

\* the invocation enters the loop (headers are built, request.rs 48-80)
Start(p) ==
    /\ pc[p] = "idle"
    /\ pc' = [pc EXCEPT ![p] = "load"]
    /\ iter' = [iter EXCEPT ![p] = 1]
    /\ UNCHANGED <<file, token, tokSrc, posts, writes, sends, bearer, saveRes,
                   savedAt, res, tmpl, redirVars, funVars>>

\* request.rs 82-89, the load_cache arm of the match
LoadCache(p) ==
    /\ pc[p] = "load"
    /\ LET r == load_cache(file) IN
       /\ pc' = [pc EXCEPT ![p] = CASE r.kind = "none" -> "acquire"
                                    [] r.kind = "some" -> "save_open"
                                    [] OTHER -> "panic_load"]
       /\ token' = [token EXCEPT ![p] = r.tok]
       /\ tokSrc' = [tokSrc EXCEPT ![p] = IF r.kind = "some" THEN "cache" ELSE "none"]
    /\ UNCHANGED <<file, iter, posts, writes, sends, bearer, saveRes, savedAt,
                   res, tmpl, redirVars, funVars>>

on_grant_error_retrying == "load"

\* `.map_err(RequestError::OAuth)?` (request.rs 88): where send goes when
\* get_access_token returns Err: it returns Err(RequestError::OAuth(e))
on_grant_error == "done_err"

\* request.rs 84-88 with oauth2.rs 232-318: one POST to the token endpoint;
\* the answer is a token record, or an error that `?` returns from send.
GetAccessToken(p) ==
    /\ pc[p] = "acquire"
    /\ posts' = [posts EXCEPT ![p] = @ + 1]
    /\ \/ \E t \in IssuedTokens :
            /\ token' = [token EXCEPT ![p] = t]
            /\ tokSrc' = [tokSrc EXCEPT ![p] = "grant"]
            /\ pc' = [pc EXCEPT ![p] = "save_open"]
            /\ UNCHANGED res
       \/ /\ pc' = [pc EXCEPT ![p] = on_grant_error]
          /\ res' = [res EXCEPT ![p] = "oauth_error"]
          /\ UNCHANGED <<token, tokSrc>>
    /\ UNCHANGED <<file, iter, writes, sends, bearer, saveRes, savedAt, tmpl,
                   redirVars, funVars>>

\* save_cache, oauth2.rs 103-109: the open and its unwrap
SaveCacheOpen(p) ==
    /\ pc[p] = "save_open"
    /\ LET r == open_create_new(file, p) IN
       /\ file' = r.file
       /\ pc' = [pc EXCEPT ![p] = IF r.ok THEN "save_write" ELSE "panic_save_open"]
    /\ UNCHANGED <<token, tokSrc, iter, posts, writes, sends, bearer, saveRes,
                   savedAt, res, tmpl, redirVars, funVars>>

\* save_cache, oauth2.rs 111-124: ttl, serialisation and write_all; the
\* caller (request.rs 93-95) turns an Err into a warning and goes on.
SaveCacheWrite(p) ==
    /\ pc[p] = "save_write"
    /\ \E now \in 0..MaxEpoch :
        /\ savedAt' = [savedAt EXCEPT ![p] = now]
        /\ \/ \* overflow checks on: `now.as_secs() + expires_in` panics
              /\ calc_ttl_overflows(now, token[p].expires_in)
              /\ pc' = [pc EXCEPT ![p] = "panic_ttl"]
              /\ UNCHANGED <<file, token, writes, saveRes>>
           \/ \* write_all succeeds
              /\ LET t == [token[p] EXCEPT !.ttl = Some(calc_ttl(now, token[p].expires_in))] IN
                 /\ token' = [token EXCEPT ![p] = t]
                 /\ file' = write_all(file, p, Written(to_string(t), p))
              /\ writes' = [writes EXCEPT ![p] = @ + 1]
              /\ saveRes' = [saveRes EXCEPT ![p] = "ok"]
              /\ pc' = [pc EXCEPT ![p] = "send"]
           \/ \* write_all fails: Err(InvalidCache), logged by the caller
              /\ LET t == [token[p] EXCEPT !.ttl = Some(calc_ttl(now, token[p].expires_in))] IN
                 /\ token' = [token EXCEPT ![p] = t]
                 /\ \E k \in PartialWrites(to_string(t)) :
                        file' = write_all(file, p, Truncated(to_string(t), k, p))
              /\ saveRes' = [saveRes EXCEPT ![p] = "err"]
              /\ pc' = [pc EXCEPT ![p] = "send"]
              /\ UNCHANGED writes
    /\ UNCHANGED <<tokSrc, iter, posts, sends, bearer, res, tmpl, redirVars, funVars>>

match_res_removing_on_error(r) ==
    CASE r = "ok" -> "done_ok"
      [] OTHER -> "remove"

\* `match res` (request.rs 124-130): Ok returns, an Err whose status is
\* UNAUTHORIZED goes on to remove_cache, any other Err returns
match_res(r) ==
    CASE r = "ok" -> "done_ok"
      [] r = "unauthorized" -> "remove"
      [] OTHER -> "done_err"

\* request.rs 101-119: the credential header.  With a template configured,
\* split_custom_header(..).unwrap(); else bearer_auth.
credential(template, access_token) ==
    IF template # <<>>
    THEN split_custom_header(template, <<access_token>>)
    ELSE HeaderResult(TRUE, <<"authorization">>, <<"Bearer ", access_token>>, "")

\* request.rs 96-130: the final request with the credential attached (the
\* token is moved into the request), and the match on its result.  The
\* unwrap of a failed split_custom_header panics before the request is sent.
SendRequest(p) ==
    /\ pc[p] = "send"
    /\ IF credential(tmpl, token[p].access_token).ok
       THEN /\ sends' = [sends EXCEPT ![p] = @ + 1]
            /\ bearer' = [bearer EXCEPT ![p] = token[p].access_token]
            /\ \E r \in {"ok", "unauthorized", "error"} :
                /\ r = "unauthorized" => iter[p] < MaxIter
                /\ res' = [res EXCEPT ![p] = r]
                /\ pc' = [pc EXCEPT ![p] = match_res(r)]
       ELSE /\ pc' = [pc EXCEPT ![p] = "panic_template"]
            /\ UNCHANGED <<sends, bearer, res>>
    /\ token' = [token EXCEPT ![p] = NoToken]
    /\ savedAt' = [savedAt EXCEPT ![p] = 0]
    /\ UNCHANGED <<file, tokSrc, iter, posts, writes, saveRes, tmpl, redirVars,
                   funVars>>

\* remove(profile): deletes the cached file if present, silent on absence
remove_cache(f) == Absent

\* request.rs 126-128 and the back edge of `loop`: the cache is removed, the
\* response and the request are dropped, and the next iteration starts
RemoveCache(p) ==
    /\ pc[p] = "remove"
    /\ file' = remove_cache(file)
    /\ pc' = [pc EXCEPT ![p] = "load"]
    /\ iter' = [iter EXCEPT ![p] = @ + 1]
    /\ token' = [token EXCEPT ![p] = NoToken]
    /\ tokSrc' = [tokSrc EXCEPT ![p] = "none"]
    /\ saveRes' = [saveRes EXCEPT ![p] = "none"]
    /\ bearer' = [bearer EXCEPT ![p] = ""]
    /\ res' = [res EXCEPT ![p] = "none"]
    /\ UNCHANGED <<posts, writes, sends, savedAt, tmpl, redirVars, funVars>>

\* cache files an earlier run of the program may have left: none, or the
\* complete record of an issued token
InitialFiles ==
    {Absent} \cup
    { Written(to_string([t EXCEPT !.ttl = Some(calc_ttl(0, t.expires_in))]),
              "earlier") :
        t \in {u \in IssuedTokens : ~calc_ttl_overflows(0, u.expires_in)} }

RedirectOff ==
    /\ previous = <<>>
    /\ url = ""
    /\ decision = "none"
    /\ hop = "off"

DispatcherInit ==
    /\ file \in InitialFiles
    /\ pc = [p \in Procs |-> "idle"]
    /\ token = [p \in Procs |-> NoToken]
    /\ tokSrc = [p \in Procs |-> "none"]
    /\ iter = [p \in Procs |-> 0]
    /\ posts = [p \in Procs |-> 0]
    /\ writes = [p \in Procs |-> 0]
    /\ sends = [p \in Procs |-> 0]
    /\ bearer = [p \in Procs |-> ""]
    /\ saveRes = [p \in Procs |-> "none"]
    /\ savedAt = [p \in Procs |-> 0]
    /\ res = [p \in Procs |-> "none"]
    /\ tmpl \in ConfigTemplates

StepOff ==
    /\ disk = <<>>
    /\ step = "off"
    /\ events = <<>>
    /\ auth_code = <<>>
    /\ stdin = <<>>

FunOff ==
    /\ arg = <<>>
    /\ out = <<>>
    /\ StepOff

Init == DispatcherInit /\ RedirectOff /\ FunOff

Next ==
    \E p \in Procs :
        \/ Start(p)
        \/ LoadCache(p)
        \/ GetAccessToken(p)
        \/ SaveCacheOpen(p)
        \/ SaveCacheWrite(p)
        \/ SendRequest(p)
        \/ RemoveCache(p)

Spec == Init /\ [][Next]_vars

----------------------------------------------------------------------------
(* RedirectPolicy: same_origin_redirect_policy (request.rs 21-40)          *)

Url(scheme, host, port, path) ==
    [scheme |-> scheme, host |-> host, port |-> port, path |-> path]

\* the resource server's URL, the same origin written with its default port,
\* and one URL differing from it in each of port, scheme and host
Urls ==
    { Url("http", "rs.example", None, "/"),
      Url("http", "rs.example", Some(80), "/next"),
      Url("http", "rs.example", Some(8080), "/"),
      Url("https", "rs.example", None, "/"),
      Url("http", "evil.example", None, "/") }

DefaultPort(scheme) == IF scheme = "https" THEN 443 ELSE 80

\* Url::origin() of an http(s) URL: (scheme, host, port or the scheme's default)
Origin(u) ==
    <<u.scheme, u.host, IF u.port = None THEN DefaultPort(u.scheme) ELSE u.port[1]>>

\* `attempt.previous().len() > 5`, request.rs 27
RedirectLimit == 5

policy_without_origin_check(prev, next) ==
    IF Len(prev) >= 1
    THEN IF Len(prev) > RedirectLimit THEN "stop" ELSE "follow"
    ELSE "stop"

policy_comparing_last_hop(prev, next) ==
    IF Len(prev) >= 1
    THEN IF Len(prev) > RedirectLimit THEN "stop"
         ELSE IF Origin(prev[Len(prev)]) # Origin(next) THEN "stop"
         ELSE "follow"
    ELSE "stop"

policy_limit_off_by_one(prev, next) ==
    IF Len(prev) >= 1
    THEN IF Len(prev) >= RedirectLimit THEN "stop"
         ELSE IF Origin(prev[1]) # Origin(next) THEN "stop"
         ELSE "follow"
    ELSE "stop"

\* the closure of Policy::custom (request.rs 23-39): `prev` is
\* attempt.previous(), `next` is attempt.url(); get(0) is the first URL of
\* the chain
same_origin_redirect_policy(prev, next) ==
    IF Len(prev) >= 1
    THEN IF Len(prev) > RedirectLimit THEN "stop"
         ELSE IF Origin(prev[1]) # Origin(next) THEN "stop"
         ELSE "follow"
    ELSE "stop"

DispatcherOff ==
    /\ file = Absent
    /\ pc = [p \in Procs |-> "idle"]
    /\ token = [p \in Procs |-> NoToken]
    /\ tokSrc = [p \in Procs |-> "none"]
    /\ iter = [p \in Procs |-> 0]
    /\ posts = [p \in Procs |-> 0]
    /\ writes = [p \in Procs |-> 0]
    /\ sends = [p \in Procs |-> 0]
    /\ bearer = [p \in Procs |-> ""]
    /\ saveRes = [p \in Procs |-> "none"]
    /\ savedAt = [p \in Procs |-> 0]
    /\ res = [p \in Procs |-> "none"]
    /\ tmpl = <<>>

(* The policy as a decision function over (previous, url) *)

Chains == UNION { [1..n -> Urls] : n \in 0..MaxChainLen }

PolicyInit ==
    /\ previous \in Chains
    /\ url \in Urls
    /\ decision = "none"
    /\ hop = "off"
    /\ DispatcherOff
    /\ FunOff

ApplyPolicy ==
    /\ decision = "none"
    /\ decision' = same_origin_redirect_policy(previous, url)
    /\ UNCHANGED <<previous, url, hop, dispVars, funVars>>

SpecPolicy == PolicyInit /\ [][ApplyPolicy]_vars

(* The transport following redirects of the final request (req.send(),     *)
(* request.rs 122): the request goes to the original URL; each 3xx answer  *)
(* names a target, the policy is asked with the URLs visited so far, and   *)
(* on "follow" the request, headers included, goes to the target.          *)

RedirectInit ==
    /\ \E u \in Urls : previous = <<u>> /\ url = u
    /\ decision = "none"
    /\ hop = "await"
    /\ DispatcherOff
    /\ FunOff

\* the server at the last visited URL answers with a redirect
RedirectResponse ==
    /\ hop = "await"
    /\ \E u \in Urls : url' = u
    /\ hop' = "redirected"
    /\ UNCHANGED <<previous, decision, dispVars, funVars>>

\* the server answers with anything else: the response is returned
FinalResponse ==
    /\ hop = "await"
    /\ hop' = "final"
    /\ UNCHANGED <<previous, url, decision, dispVars, funVars>>

\* the transport asks the policy and follows or returns the 3xx response
PolicyDecides ==
    /\ hop = "redirected"
    /\ decision' = same_origin_redirect_policy(previous, url)
    /\ IF decision' = "follow"
       THEN previous' = Append(previous, url) /\ hop' = "await"
       ELSE previous' = previous /\ hop' = "final"
    /\ UNCHANGED <<url, dispVars, funVars>>

RedirectNext == RedirectResponse \/ FinalResponse \/ PolicyDecides

SpecRedirect == RedirectInit /\ [][RedirectNext]_vars

----------------------------------------------------------------------------
(* Properties of Dispatcher::send and the token cache, checked under Spec  *)

Others(p) == Procs \ {p}
Alone(p) == \A q \in Others(p) : pc[q] = "idle"

\* C1: whatever the resource server and the token endpoint answer, an
\* invocation sends the final request at most twice, acquires a token at most
\* twice and never starts a third loop iteration.
C1_AtMostTwoAttempts ==
    \A p \in Procs : sends[p] <= 2 /\ posts[p] <= 2 /\ iter[p] <= 2

\* C2: an invocation running alone that found no cache file has, when its
\* first final request is answered, made exactly one token POST and one cache
\* write; once its second final request is answered it returns that result,
\* whatever it is, having made exactly two token POSTs.
C2_ExactlyOneRetry ==
    \A p \in Procs :
        Alone(p) =>
            /\ (/\ iter[p] = 1
                /\ sends[p] = 1
                /\ pc[p] \in {"done_ok", "done_err", "remove"}
                /\ saveRes[p] = "ok")
               => (posts[p] = 1 /\ writes[p] = 1)
            /\ (sends[p] = 2 /\ pc[p] # "send")
               => (pc[p] \in {"done_ok", "done_err"} /\ posts[p] = 2)
            /\ sends[p] <= 2

\* C3: an invocation whose first load_cache returned the cached token makes
\* no token POST and ends only after it has sent the final request; the save
\* that follows the cache hit does not end it.
C3_CacheHitSendsRequest ==
    \A p \in Procs :
        (iter[p] = 1 /\ tokSrc[p] = "cache" /\ pc[p] \in Terminal)
            => (posts[p] = 0 /\ sends[p] = 1 /\ pc[p] \in {"done_ok", "done_err"})

\* C7: a save_cache that finds the cache file present fails and leaves the
\* file as it was, and a complete record on disk changes only by being
\* removed: no save replaces it.
C7_SaveNeverOverwrites ==
    [][ /\ \A p \in Procs :
            (pc[p] = "save_open" /\ file.exists /\ pc'[p] # "save_open")
                => (file' = file /\ pc'[p] = "panic_save_open")
        /\ (file.exists /\ file.closed /\ file' # file)
                => (file' = Absent /\ \E p \in Procs : pc[p] = "remove" /\ pc'[p] = "load")
      ]_vars

\* a save was attempted on an existing complete record, which is still there
C7_Witness ==
    \E p \in Procs :
        /\ pc[p] = "panic_save_open"
        /\ tokSrc[p] = "grant"
        /\ file.exists /\ file.closed /\ file.by \in Others(p)
        /\ from_reader(file.doc).access_token # token[p].access_token

\* C8: when both invocations missed the cache and acquired a token, the one
\* whose save finds the file already created does not end there: it goes on
\* to its final request.
C8_LoserStillSends ==
    \A p \in Procs : \A q \in Others(p) :
        (/\ iter[p] = 1 /\ iter[q] = 1
         /\ tokSrc[p] = "grant" /\ tokSrc[q] = "grant")
            => pc[p] # "panic_save_open"

\* C9: load_cache never ends the invocation: a file that is missing, empty or
\* not a well-formed token record is a cache miss.
C9_LoadNeverFatal ==
    \A p \in Procs : pc[p] # "panic_load"

\* C10: a save_cache that found no cache file succeeds, and the record then
\* on disk loads as the saved token with ttl = (epoch seconds at save) +
\* expires_in.  (A failed write_all is left aside: saveRes = "err".)
C10_RoundTrip ==
    \A p \in Procs :
        /\ pc[p] # "panic_ttl"
        /\ (pc[p] = "send" /\ saveRes[p] = "ok" /\ file.exists /\ file.by = p)
            => /\ load_cache(file).kind = "some"
               /\ load_cache(file).tok =
                    [token[p] EXCEPT !.ttl = Some(savedAt[p] + token[p].expires_in)]

----------------------------------------------------------------------------
(* Properties of the redirect policy                                       *)

SameOriginChain(chain, u) == \A i \in 1..Len(chain) : Origin(chain[i]) = Origin(u)

\* C4: every URL the authenticated request is sent to has the origin of the
\* original request URL, whatever redirect targets the servers choose.
C4_CredentialStaysOnOrigin ==
    \A i \in 1..Len(previous) : Origin(previous[i]) = Origin(previous[1])

\* a redirect to another URL of the same origin was followed, and a later
\* redirect to a foreign origin was refused
C4_Witness ==
    /\ Len(previous) >= 2
    /\ previous[2] # previous[1]
    /\ hop = "final"
    /\ decision = "stop"
    /\ Origin(url) # Origin(previous[1])

\* C5 as stated: for a chain of 1..5 prior hops the policy stops whenever the
\* next hop's origin differs from that of the last URL of the chain.
C5_StopsOnLastHopOrigin ==
    (/\ decision # "none"
     /\ Len(previous) \in 1..RedirectLimit
     /\ Origin(url) # Origin(previous[Len(previous)]))
        => decision = "stop"

\* C5 amended: for a chain of 1..5 prior hops the policy stops whenever the
\* next hop's origin differs from that of the first URL of the chain, the
\* original request URL.
C5_StopsOnFirstHopOrigin ==
    (/\ decision # "none"
     /\ Len(previous) \in 1..RedirectLimit
     /\ Origin(url) # Origin(previous[1]))
        => decision = "stop"

\* the policy stopped a hop that leaves the first URL's origin although it
\* stays on the origin of the last hop
C5_Witness ==
    /\ decision = "stop"
    /\ Len(previous) \in 2..RedirectLimit
    /\ Origin(url) # Origin(previous[1])
    /\ Origin(url) = Origin(previous[Len(previous)])

\* C6: the policy stops on more than 5 prior hops, follows a same-origin hop
\* on 1..5 prior hops, and stops when there is no prior hop.
C6_HopCountBound ==
    decision # "none" =>
        /\ Len(previous) > RedirectLimit => decision = "stop"
        /\ Len(previous) = 0 => decision = "stop"
        /\ (Len(previous) \in 1..RedirectLimit /\ SameOriginChain(previous, url))
            => decision = "follow"

\* a chain of 6 same-origin prior hops was stopped
C6_Witness ==
    /\ decision = "stop"
    /\ Len(previous) = RedirectLimit + 1
    /\ SameOriginChain(previous, url)

----------------------------------------------------------------------------
(* Further properties of Dispatcher::send, checked under Spec              *)

Malformed(template) ==
    template # <<>> /\ ~split_custom_header(template, <<"t">>).ok

\* C13: with a malformed auth-header template an invocation ends only by
\* returning an error, and it makes no token POST, no cache write and no
\* final request.
C13_TemplateErrorFailsFast ==
    \A p \in Procs :
        Malformed(tmpl) =>
            /\ posts[p] = 0 /\ writes[p] = 0 /\ sends[p] = 0
            /\ pc[p] \in Terminal => pc[p] = "done_err"

\* C15: the cache file is deleted only by an invocation whose final request
\* was answered unauthorized; an invocation whose final request succeeded or
\* failed otherwise ends at once and leaves the file as it is.
C15_RemoveOnlyAfterUnauthorized ==
    [][ /\ (file.exists /\ ~file'.exists)
            => \E p \in Procs :
                 pc[p] = "remove" /\ res[p] = "unauthorized" /\ pc'[p] = "load"
        /\ \A p \in Procs :
            (pc[p] = "send" /\ res'[p] \in {"ok", "error"})
                => (pc'[p] \in {"done_ok", "done_err"} /\ file' = file)
        /\ \A p \in Procs :
            pc[p] \in {"done_ok", "done_err"} => pc'[p] = pc[p]
      ]_vars

\* a final request failed with another error and the record this invocation
\* wrote is still on disk
C15_Witness ==
    \E p \in Procs :
        /\ pc[p] = "done_err" /\ res[p] = "error"
        /\ file.exists /\ file.closed /\ file.by = p
        /\ \E q \in Others(p) : iter[q] >= 2

\* C16: when get_access_token fails, send returns that error: the loop ends
\* without another attempt, no cache file is written and no final request is
\* sent.
C16_GrantErrorReturned ==
    [][ \A p \in Procs :
          /\ (pc[p] = "acquire" /\ res'[p] = "oauth_error")
                => /\ pc'[p] = "done_err"
                   /\ file' = file /\ writes'[p] = writes[p] /\ sends'[p] = sends[p]
          /\ (pc[p] = "done_err" /\ res[p] = "oauth_error")
                => (pc'[p] = pc[p] /\ posts'[p] = posts[p]
                    /\ writes'[p] = writes[p] /\ sends'[p] = sends[p])
      ]_vars

\* an acquisition failed on a cache miss: the invocation has returned the
\* error, having written and sent nothing
C16_Witness ==
    \E p \in Procs :
        /\ pc[p] = "done_err" /\ res[p] = "oauth_error"
        /\ iter[p] = 1 /\ posts[p] = 1 /\ writes[p] = 0 /\ sends[p] = 0
        /\ ~file.exists

\* C20: a load_cache that runs while the other invocation's save_cache has
\* created the file and not yet written it misses or returns a complete
\* record.
C20_LoadNeverSeesHalfWrittenFile ==
    [][ \A p \in Procs :
          (/\ pc[p] = "load" /\ pc'[p] # "load"
           /\ \E q \in Others(p) : pc[q] = "save_write" /\ file = Created(q))
              => pc'[p] \in {"acquire", "save_open"}
      ]_vars

----------------------------------------------------------------------------
(* split_custom_header applied on its own (request.rs 135-156)             *)

MaxChunks == 4

\* pieces a template is put together from
TemplateChunks ==
    { <<"X", "-", "A">>, <<"=">>, <<"B", " ">>, <<" ">>,
      <<"$", "t", "o", "k", "e", "n">>, <<"$", "T", "o", "K", "E", "N">>,
      <<"$", "t", "o", "k">> }

RECURSIVE Concat(_)
Concat(chunks) ==
    IF chunks = <<>> THEN <<>> ELSE Head(chunks) \o Concat(Tail(chunks))

Templates ==
    {TemplateExample} \cup
    { Concat(cs) : cs \in UNION { [1..n -> TemplateChunks] : n \in 0..MaxChunks } }

\* access tokens: the spec's example and one with an upper-case letter
AccessTokens == { <<"a", "b", "c", "1", "2", "3">>, <<"A", "b">> }

HeaderInit ==
    /\ arg \in [template : Templates, access_token : AccessTokens]
    /\ out = <<>>
    /\ StepOff
    /\ DispatcherOff
    /\ RedirectOff

SplitCustomHeader ==
    /\ out = <<>>
    /\ out' = <<split_custom_header(arg.template, arg.access_token)>>
    /\ UNCHANGED <<arg, stepVars, dispVars, redirVars>>

SpecHeader == HeaderInit /\ [][SplitCustomHeader]_vars

\* the value side of a template, read without lower-casing it first: the
\* placeholder in any letter case gives the token, any other character gives
\* its lower-case form
RECURSIVE Substituted(_, _)
Substituted(v, access_token) ==
    IF v = <<>> THEN <<>>
    ELSE IF /\ Len(v) >= Len(Placeholder)
            /\ \A i \in 1..Len(Placeholder) : Lower(v[i]) = Placeholder[i]
         THEN access_token
              \o Substituted(SubSeq(v, Len(Placeholder) + 1, Len(v)), access_token)
         ELSE <<Lower(Head(v))>> \o Substituted(Tail(v), access_token)

EqualSigns(t) == {i \in 1..Len(t) : t[i] = "="}

HasPlaceholderAfter(t, e) ==
    \E i \in (e + 1)..(Len(t) - Len(Placeholder) + 1) :
        \A k \in 1..Len(Placeholder) : Lower(t[i + k - 1]) = Placeholder[k]

Stripped(v) ==
    IF \A i \in 1..Len(v) : v[i] = " " THEN <<>>
    ELSE LET a == CHOOSE i \in 1..Len(v) :
                      v[i] # " " /\ \A k \in 1..(i - 1) : v[k] = " "
             b == CHOOSE i \in 1..Len(v) :
                      v[i] # " " /\ \A k \in (i + 1)..Len(v) : v[k] = " "
         IN SubSeq(v, a, b)

\* C12: split_custom_header succeeds exactly when the template has one '='
\* and the part after it holds $token in some letter case; it then returns
\* the part before '=' unchanged and the part after it trimmed, lower-cased
\* and with each placeholder replaced by the token as given; the example
\* "X-Auth=Bearer $TOKEN" with "abc123" gives ("X-Auth", "bearer abc123");
\* otherwise it returns an error.
C12_SplitCustomHeader ==
    out # <<>> =>
        LET t == arg.template
            r == out[1]
            one == Cardinality(EqualSigns(t)) = 1
            e == CHOOSE i \in EqualSigns(t) : TRUE
        IN /\ r.ok <=> (one /\ HasPlaceholderAfter(t, e))
           /\ r.ok => /\ r.header = SubSeq(t, 1, e - 1)
                      /\ r.value = Substituted(Stripped(SubSeq(t, e + 1, Len(t))),
                                               arg.access_token)
           /\ ~r.ok => r.err # ""
           /\ (t = TemplateExample /\ arg.access_token = <<"a", "b", "c", "1", "2", "3">>)
                => /\ r.ok
                   /\ r.header = <<"X", "-", "A", "u", "t", "h">>
                   /\ r.value = <<"b", "e", "a", "r", "e", "r", " ",
                                  "a", "b", "c", "1", "2", "3">>

\* a template in mixed case and with spaces around the value, applied to a
\* token with an upper-case letter
C12_Witness ==
    /\ out # <<>>
    /\ arg.template = <<"X", "-", "A", "=", " ", "$", "T", "o", "K", "E", "N">>
    /\ arg.access_token = <<"A", "b">>
    /\ out[1].ok
    /\ out[1].value = <<"A", "b">>

----------------------------------------------------------------------------
(* AccessToken::cache_file (oauth2.rs 137-151).  A PathBuf is the sequence *)
(* of its components, a component a sequence of characters.                *)

MaxNameLen == 3

NameChars == {"a", "b", "."}

\* profile names without a path separator
ProfileNames == UNION { [1..n -> NameChars] : n \in 1..MaxNameLen }

Homes == { << <<"r", "o", "o", "t">> >>, << <<"h", "o", "m", "e">>, <<"u">> >> }

CurDir == <<".">>
ParentDir == <<".", ".">>

\* PathBuf::push of a relative path of one component
push(path, component) == Append(path, component)

\* Path::components: a "." component after the first is skipped
components(path) == SelectSeq(path, LAMBDA c : c # CurDir)

\* Path::file_name: the last component unless that is ".."
file_name(path) ==
    LET cs == components(path) IN
    IF cs = <<>> \/ cs[Len(cs)] = ParentDir THEN None ELSE Some(cs[Len(cs)])

\* Path::file_stem: the name up to its last '.', the whole name when it has
\* no '.' or only a leading one
file_stem(path) ==
    IF file_name(path) = None THEN None
    ELSE LET name == file_name(path)[1]
             dots == {i \in 1..Len(name) : name[i] = "."}
             last == CHOOSE i \in dots : \A j \in dots : j <= i
         IN IF dots = {} \/ last = 1 THEN Some(name)
            ELSE Some(SubSeq(name, 1, last - 1))

\* PathBuf::set_extension: the path is cut right after the file stem and
\* '.' and the extension are put there; no change without a file name
set_extension(path, ext) ==
    IF file_stem(path) = None THEN path
    ELSE LET cs == components(path) IN
         SubSeq(cs, 1, Len(cs) - 1) \o <<file_stem(path)[1] \o <<".">> \o ext>>

basedir(home) == push(home, <<".", "a", "u", "r", "l">>)

cache_file(home, profile) ==
    set_extension(push(push(basedir(home), <<"t", "o", "k", "e", "n">>), profile),
                  <<"j", "s", "o", "n">>)

CachePathInit ==
    /\ arg \in [home : Homes, profile : ProfileNames]
    /\ out = <<>>
    /\ StepOff
    /\ DispatcherOff
    /\ RedirectOff

CacheFile ==
    /\ out = <<>>
    /\ out' = <<cache_file(arg.home, arg.profile)>>
    /\ UNCHANGED <<arg, stepVars, dispVars, redirVars>>

SpecCachePath == CachePathInit /\ [][CacheFile]_vars

\* C11: for every profile name without a path separator, names with a '.'
\* included, cache_file gives <home>/.aurl/token/<profile>.json.
C11_CachePathIsProfileDotJson ==
    out # <<>> =>
        out[1] = arg.home \o << <<".", "a", "u", "r", "l">>,
                                <<"t", "o", "k", "e", "n">>,
                                arg.profile \o <<".", "j", "s", "o", "n">> >>

----------------------------------------------------------------------------
(* The token directory shared by two profiles: save_cache, load_cache and  *)
(* remove_cache address a profile's record by cache_file(profile).         *)

StoreHome == << <<"r", "o", "o", "t">> >>

\* disk maps each cache path in use to None or Some(p), p being the profile
\* the stored record was issued for
StoreInit ==
    /\ arg \in { ps \in [1..2 -> ProfileNames] : ps[1] # ps[2] }
    /\ disk = [ f \in {cache_file(StoreHome, arg[i]) : i \in 1..2} |-> None ]
    /\ out = <<>>
    /\ step = "off" /\ events = <<>> /\ auth_code = <<>> /\ stdin = <<>>
    /\ DispatcherOff
    /\ RedirectOff

StoreFrame == UNCHANGED <<arg, step, events, auth_code, stdin, dispVars, redirVars>>

\* save_cache(profile): create_new fails on an existing file (unwrap panics)
StoreSave(i) ==
    LET f == cache_file(StoreHome, arg[i]) IN
    /\ IF disk[f] = None
       THEN /\ disk' = [disk EXCEPT ![f] = Some(arg[i])]
            /\ out' = <<[op |-> "save", profile |-> arg[i], got |-> None]>>
       ELSE /\ disk' = disk
            /\ out' = <<[op |-> "panic", profile |-> arg[i], got |-> None]>>
    /\ StoreFrame

\* load_cache(profile)
StoreLoad(i) ==
    /\ out' = <<[op |-> "load", profile |-> arg[i],
                 got |-> disk[cache_file(StoreHome, arg[i])]]>>
    /\ disk' = disk
    /\ StoreFrame

\* remove_cache(profile)
StoreRemove(i) ==
    /\ disk' = [disk EXCEPT ![cache_file(StoreHome, arg[i])] = None]
    /\ out' = <<[op |-> "remove", profile |-> arg[i], got |-> None]>>
    /\ StoreFrame

StoreNext == \E i \in 1..2 : StoreSave(i) \/ StoreLoad(i) \/ StoreRemove(i)

SpecStore == StoreInit /\ [][StoreNext]_vars

\* C19: the operations on two distinct profile names use distinct cache
\* paths; a load for a profile returns nothing or the record saved for that
\* profile; removing a profile's record leaves the other profile's record in
\* place.
C19_ProfilesDoNotShareAFile ==
    /\ out # <<>> => cache_file(StoreHome, arg[1]) # cache_file(StoreHome, arg[2])
    /\ (out # <<>> /\ out[1].op = "load")
            => out[1].got \in {None, Some(out[1].profile)}
    /\ \A i \in 1..2 :
        (out # <<>> /\ out[1].op = "remove" /\ out[1].profile = arg[i])
            => \A j \in (1..2) \ {i} :
                 disk[cache_file(StoreHome, arg[j])] \in {None, Some(arg[j])}

----------------------------------------------------------------------------
(* GrantType::get_access_token (oauth2.rs 232-318) as a step machine       *)

MaxLines == 2

GrantTypes == {"Password", "ClientCredentials", "AuthorizationCode"}

\* the Option fields of OAuth2Config read through the accessors (32-71)
ConfigFields ==
    {"auth_server_auth_endpoint", "auth_server_token_endpoint", "client_id",
     "scopes", "username", "password", "redirect"}

\* accessors called with `?` while the request is built, in evaluation order
Accessors(grant) ==
    CASE grant = "Password" ->
            <<"auth_server_token_endpoint", "client_id", "scopes", "username",
              "password">>
      [] grant = "ClientCredentials" ->
            <<"auth_server_token_endpoint", "client_id", "scopes">>
      [] grant = "AuthorizationCode" ->
            <<"auth_server_auth_endpoint", "client_id", "scopes", "redirect">>

\* accessors called with `?` after the prompt loop (298-311)
LateAccessors(grant) ==
    IF grant = "AuthorizationCode"
    THEN <<"auth_server_token_endpoint", "client_id", "redirect">>
    ELSE <<>>

\* ok_or: the first accessor in order whose field is None
FirstMissing(accessors, present) ==
    LET absent == {i \in 1..Len(accessors) : accessors[i] \notin present} IN
    IF absent = {} THEN None
    ELSE Some(accessors[CHOOSE i \in absent : \A j \in absent : i <= j])

GrantOk == [ok |-> TRUE, err |-> "", field |-> ""]
InvalidConfig(fname) == [ok |-> FALSE, err |-> "InvalidConfig", field |-> fname]
HttpError == [ok |-> FALSE, err |-> "HttpError", field |-> ""]

Event(io, text) == [io |-> io, text |-> text]

\* lines a user may type; the last of them may lack its newline
InputLines ==
    { <<"\n">>, <<" ", "\n">>, <<"\r", "\n">>, <<"c", "\n">>,
      <<" ", "c", " ", "\n">>, <<"c">> }

StdinInputs ==
    { ls \in UNION { [1..n -> InputLines] : n \in 0..MaxLines } :
        \A i \in 1..(Len(ls) - 1) : ls[i][Len(ls[i])] = "\n" }

GrantInit ==
    /\ arg \in { a \in [grant : GrantTypes, present : SUBSET ConfigFields,
                        lines : StdinInputs] :
                   a.grant # "AuthorizationCode" => a.lines = <<>> }
    /\ out = <<>>
    /\ disk = <<>>
    /\ step = "start"
    /\ events = <<>>
    /\ auth_code = <<>>
    /\ stdin = arg.lines
    /\ DispatcherOff
    /\ RedirectOff

GrantTerminal == {"returned", "panic_browser", "eof"}

\* 239-277: the accessors of the first request
CheckConfig ==
    /\ step = "start"
    /\ LET m == FirstMissing(Accessors(arg.grant), arg.present) IN
       IF m # None
       THEN /\ out' = <<InvalidConfig(m[1])>>
            /\ step' = "returned"
       ELSE /\ out' = out
            /\ step' = IF arg.grant = "AuthorizationCode" THEN "browser" ELSE "post"
    /\ UNCHANGED <<arg, disk, events, auth_code, stdin, dispVars, redirVars>>

\* 279-283: webbrowser::open(url).unwrap()
OpenBrowser ==
    /\ step = "browser"
    /\ events' = Append(events, Event("browser", <<>>))
    /\ step' \in {"prompt", "panic_browser"}
    /\ UNCHANGED <<arg, out, disk, auth_code, stdin, dispVars, redirVars>>

\* 289-290: print! and flush
Prompt ==
    /\ step = "prompt"
    /\ events' = Append(events, Event("prompt", <<>>))
    /\ step' = "read"
    /\ UNCHANGED <<arg, out, disk, auth_code, stdin, dispVars, redirVars>>

\* 291-295: read_line appends the line to auth_code and returns its size; at
\* end of input it returns Ok(0) and the loop never ends
ReadLine ==
    /\ step = "read"
    /\ IF stdin = <<>>
       THEN /\ step' = "eof"
            /\ UNCHANGED <<events, auth_code, stdin>>
       ELSE \/ /\ events' = Append(events, Event("read", Head(stdin)))
               /\ auth_code' = auth_code \o Head(stdin)
               /\ stdin' = Tail(stdin)
               /\ step' = IF Len(Head(stdin)) > 1 THEN "build" ELSE "prompt"
            \/ /\ events' = Append(events, Event("read_error", Head(stdin)))
               /\ auth_code' = auth_code
               /\ stdin' = Tail(stdin)
               /\ step' = "prompt"
    /\ UNCHANGED <<arg, out, disk, dispVars, redirVars>>

\* 298-311: the accessors of the token request
BuildTokenRequest ==
    /\ step = "build"
    /\ LET m == FirstMissing(LateAccessors(arg.grant), arg.present) IN
       IF m # None
       THEN /\ out' = <<InvalidConfig(m[1])>>
            /\ step' = "returned"
       ELSE /\ out' = out
            /\ step' = "post"
    /\ UNCHANGED <<arg, disk, events, auth_code, stdin, dispVars, redirVars>>

\* 315-317: send().await? and res.json()
PostTokenRequest ==
    /\ step = "post"
    /\ events' = Append(events,
                        Event("post", IF arg.grant = "AuthorizationCode"
                                      THEN trim(auth_code) ELSE <<>>))
    /\ \E r \in {GrantOk, HttpError} : out' = <<r>>
    /\ step' = "returned"
    /\ UNCHANGED <<arg, disk, auth_code, stdin, dispVars, redirVars>>

GrantNext ==
    \/ CheckConfig
    \/ OpenBrowser
    \/ Prompt
    \/ ReadLine
    \/ BuildTokenRequest
    \/ PostTokenRequest

SpecGrant == GrantInit /\ [][GrantNext]_vars

Required(grant) ==
    {Accessors(grant)[i] : i \in 1..Len(Accessors(grant))}
        \cup {LateAccessors(grant)[i] : i \in 1..Len(LateAccessors(grant))}

\* C14: when a field the grant variant requires is absent, get_access_token
\* does no I/O at all (no browser launch, no prompt, no read, no POST) and
\* ends only by returning InvalidConfig naming an absent required field.
C14_MissingFieldFailsBeforeIO ==
    (Required(arg.grant) \ arg.present # {}) =>
        /\ events = <<>>
        /\ step \in GrantTerminal =>
              /\ step = "returned"
              /\ out = <<InvalidConfig(out[1].field)>>
              /\ out[1].field \in Required(arg.grant) \ arg.present

\* C17: in the AuthorizationCode grant every blank line read is followed by
\* another prompt, and the code POSTed is non-empty and is the last line
\* read, trimmed, all lines read before it having been blank.
C17_PostedCodeIsTheNonBlankLine ==
    LET reads == SelectSeq(events, LAMBDA e : e.io = "read") IN
    /\ \A i \in 1..(Len(events) - 1) :
          (events[i].io = "read" /\ trim(events[i].text) = <<>>)
              => events[i + 1].io = "prompt"
    /\ \A i \in 1..Len(events) :
          (events[i].io = "post" /\ arg.grant = "AuthorizationCode")
              => /\ events[i].text # <<>>
                 /\ reads # <<>>
                 /\ events[i].text = trim(reads[Len(reads)].text)
                 /\ \A k \in 1..(Len(reads) - 1) : trim(reads[k].text) = <<>>

----------------------------------------------------------------------------
(* The outbound header set of Dispatcher::send (request.rs 48-78)          *)

MaxHeaders == 2

USER_AGENT == <<"u", "s", "e", "r", "-", "a", "g", "e", "n", "t">>
CONTENT_TYPE == <<"c", "o", "n", "t", "e", "n", "t", "-", "t", "y", "p", "e">>

\* the fixed product identifier used when no default_user_agent is configured
version_name == <<"a", "u", "r", "l">>

\* -H arguments a caller may give
HeaderArgs ==
    { <<"U", "s", "e", "r", "-", "A", "g", "e", "n", "t", ",", "c">>,
      USER_AGENT \o <<",", "c">>,
      <<"C", "o", "n", "t", "e", "n", "t", "-", "T", "y", "p", "e", ",", "t">>,
      CONTENT_TYPE \o <<",", "t">>,
      <<"x", ",", "1">>,
      <<"x">>,
      <<"x", ",", "1", ",", "2">>,
      <<"b", " ", "d", ",", "1">> }

\* HashMap<String, String> as the set of its (key, value) entries
contains_key(hm, k) == \E e \in hm : e[1] = k
insert(hm, k, v) == {e \in hm : e[1] # k} \cup {<<k, v>>}

\* 49-56: every -H argument that splits on ',' into two parts is inserted
RECURSIVE parse_headers(_, _)
parse_headers(hm, header) ==
    IF header = <<>> THEN hm
    ELSE LET kv == split(Head(header), ",") IN
         parse_headers(IF Len(kv) = 2 THEN insert(hm, kv[1], kv[2]) ELSE hm,
                       Tail(header))

\* 58-67
with_user_agent(hm, default_user_agent) ==
    IF ~contains_key(hm, USER_AGENT)
    THEN insert(hm, USER_AGENT,
                IF default_user_agent # None THEN default_user_agent[1]
                ELSE version_name)
    ELSE hm

\* 69-75
with_content_type(hm, default_content_type) ==
    IF ~contains_key(hm, CONTENT_TYPE) /\ default_content_type # None
    THEN insert(hm, CONTENT_TYPE, default_content_type[1])
    ELSE hm

\* HeaderName::try_from: letters and '-' here; upper case is accepted
\* and stored in lower case
ValidHeaderName(k) ==
    /\ k # <<>>
    /\ \A i \in 1..Len(k) :
          \/ k[i] = "-"
          \/ \E j \in 1..Len(Lowers) : Lower(k[i]) = Lowers[j]

\* the orders in which a HashMap may hand out its entries
IterationOrders(hm) ==
    { o \in [1..Cardinality(hm) -> hm] :
        \A i, j \in 1..Cardinality(hm) : i # j => o[i] # o[j] }

HeadersInit ==
    /\ arg \in [header : UNION { [1..n -> HeaderArgs] : n \in 0..MaxHeaders },
                default_user_agent : {None, Some(<<"d", "u", "a">>)},
                default_content_type : {None, Some(<<"j", "s", "o", "n">>)}]
    /\ out = <<>>
    /\ StepOff
    /\ DispatcherOff
    /\ RedirectOff

\* 48-78: the HashMap is filled, then converted entry by entry into a
\* HeaderMap, which lower-cases each name and appends the value to the values
\* the name already has
BuildHeaders ==
    /\ out = <<>>
    /\ LET hm == with_content_type(
                     with_user_agent(parse_headers({}, arg.header),
                                     arg.default_user_agent),
                     arg.default_content_type)
       IN IF \E e \in hm : ~ValidHeaderName(e[1])
          THEN out' = <<[ok |-> FALSE, headers |-> <<>>]>>
          ELSE \E o \in IterationOrders(hm) :
                  out' = <<[ok |-> TRUE,
                            headers |-> [i \in 1..Cardinality(hm) |->
                                            <<to_lowercase(o[i][1]), o[i][2]>>]]>>
    /\ UNCHANGED <<arg, stepVars, dispVars, redirVars>>

SpecHeaders == HeadersInit /\ [][BuildHeaders]_vars

WellSplit(h) == Cardinality({i \in 1..Len(h) : h[i] = ","}) = 1

NameOf(h) == SubSeq(h, 1, (CHOOSE i \in 1..Len(h) : h[i] = ",") - 1)
ValueOf(h) == SubSeq(h, (CHOOSE i \in 1..Len(h) : h[i] = ",") + 1, Len(h))

\* positions of the caller's well-formed -H arguments for a header name,
\* whatever the letter case
Supplied(name) ==
    {i \in 1..Len(arg.header) :
        WellSplit(arg.header[i]) /\ to_lowercase(NameOf(arg.header[i])) = name}

ValuesOf(name) ==
    LET hs == SelectSeq(out[1].headers, LAMBDA e : e[1] = name) IN
    [i \in 1..Len(hs) |-> hs[i][2]]

\* C18: the header set always holds a User-Agent; a User-Agent or
\* content-type the caller supplied (in any letter case) is that header's
\* single value; without one the User-Agent is the configured or fixed
\* default and the content-type is config.default_content_type if set; a -H
\* argument without exactly two comma-separated parts adds nothing and
\* causes no error.
C18_DefaultsOnlyWhenNotSupplied ==
    out # <<>> =>
        /\ out[1].ok =>
            /\ ValuesOf(USER_AGENT) # <<>>
            /\ \A name \in {USER_AGENT, CONTENT_TYPE} :
                  \A i \in Supplied(name) :
                      Supplied(name) = {i}
                          => ValuesOf(name) = <<ValueOf(arg.header[i])>>
            /\ Supplied(USER_AGENT) = {}
                  => ValuesOf(USER_AGENT) =
                        <<IF arg.default_user_agent # None
                          THEN arg.default_user_agent[1] ELSE version_name>>
            /\ Supplied(CONTENT_TYPE) = {}
                  => ValuesOf(CONTENT_TYPE) = arg.default_content_type
            /\ \A k \in 1..Len(out[1].headers) :
                  \/ out[1].headers[k][1] \in {USER_AGENT, CONTENT_TYPE}
                  \/ Supplied(out[1].headers[k][1]) # {}
        /\ ~out[1].ok =>
              \E i \in 1..Len(arg.header) :
                  WellSplit(arg.header[i]) /\ ~ValidHeaderName(NameOf(arg.header[i]))

====
